---- MODULE Spec2Model ----
(***************************************************************************)
(* IsoQuant: poly(A)/poly(T) tail detection (src/polya_finder.py) and the  *)
(* boundary annotations of the SQANTI-style report (src/assignment_io.py). *)
(*                                                                         *)
(* Strings are sequences of one-character strings, indexed from 1; the     *)
(* Python slices and indices of the source are 0-based and are translated  *)
(* by PySlice.  An operation is modelled as one action that takes the      *)
(* arguments held in the state at pc = "start", runs the whole method and  *)
(* leaves its outcome (a returned value or a raised exception) and its     *)
(* local variables in the state at pc = "done".                            *)
(***************************************************************************)
EXTENDS Integers, Sequences, FiniteSets, TLC

VARIABLES pc, op, finder, arg, ret, locals, gene_info

vars == <<pc, op, finder, arg, ret, locals, gene_info>>

\* ---------------------------------------------------------------- bounds
\* longest query sequence / scanned string
MaxSeqLen == 4
\* longest soft clip of a CIGAR operation list
MaxClip == 3
\* largest window_size of a PolyAFinder
MaxWindow == 2

\* length of the reference region of a gene
RegionLen == 5
\* genomic coordinate the reference region starts at
RegionStart == 100
\* most introns of a read
MaxIntrons == 2
\* introns the reads of one gene share
MaxSharedIntrons == 2
\* largest genomic coordinate of an exon
MaxCoord == 2
\* most exons of a read or a transcript
MaxExons == 2
\* most transcripts of a gene
MaxTranscripts == 3

\* ------------------------------------------------------ program constants
\* a splice site is 2 bases of the reference region
SiteLen == 2
\* pysam CIGAR operation codes the finder compares against
BAM_CSOFT_CLIP == 4
BAM_CHARD_CLIP == 5
\* the finder reads cigar_tuples[-1] and cigar_tuples[-2] (resp. [0], [1])
OpsInspected == 2
\* PolyAFinder.__init__ default window_size
DefaultWindowSize == 20

\* ------------------------------------------------------------ Python glue
Min(a, b) == IF a < b THEN a ELSE b
Max(a, b) == IF a > b THEN a ELSE b

\* Python s[a:b]: negative indices count from the end, both are clamped
PyIndex(n, len) == IF n < 0 THEN Max(n + len, 0) ELSE Min(n, len)
PySlice(s, a, b) == SubSeq(s, PyIndex(a, Len(s)) + 1, PyIndex(b, Len(s)))

\* str.count of a one-character string
Count(s, c) == Cardinality({i \in DOMAIN s : s[i] = c})

\* str.upper on the characters a nucleotide string may hold
UpperChar(c) ==
    CASE c = "a" -> "A" [] c = "c" -> "C" [] c = "g" -> "G" [] c = "t" -> "T"
      [] OTHER -> c
Upper(s) == [i \in DOMAIN s |-> UpperChar(s[i])]

\* Bio.Seq complement table, case preserving
ComplementChar(c) ==
    CASE c = "A" -> "T" [] c = "T" -> "A" [] c = "C" -> "G" [] c = "G" -> "C"
      [] c = "a" -> "t" [] c = "t" -> "a" [] c = "c" -> "g" [] c = "g" -> "c"
      [] OTHER -> c
reverse_complement(s) == [i \in 1..Len(s) |-> ComplementChar(s[Len(s) + 1 - i])]

\* all strings over alphabet of length at most n
StringsUpTo(alphabet, n) == UNION {[1..k -> alphabet] : k \in 0..n}

\* ------------------------------------------------------------ PolyAFinder
\* min_polya_fraction is held as the ratio num/den; for every ratio drawn
\* below the float product window_size * min_polya_fraction truncates to
\* the same integer as the exact quotient.
PolyAFinder(window_size, min_polya_fraction) ==
    [window_size |-> window_size,
     min_polya_fraction |-> min_polya_fraction,
     polyA_count |-> (window_size * min_polya_fraction.num) \div min_polya_fraction.den]

\* the while loop of find_polya, from index i on: the index it stops at
RECURSIVE find_polya_scan(_, _, _)
find_polya_scan(self, seq, i) ==
    IF i < Len(seq) - self.window_size
    THEN IF Count(PySlice(seq, i, i + self.window_size), "A") >= self.polyA_count
         THEN i
         ELSE find_polya_scan(self, seq, i + 1)
    ELSE i

find_polya(self, seq) ==
    IF Len(seq) < self.window_size THEN -1
    ELSE LET i == find_polya_scan(self, seq, 0)
         IN  IF i >= Len(seq) - self.window_size THEN -1 ELSE i

NoLocals == [clipped_size |-> 0, whole_len |-> 0, check_start |-> 0,
             check_end |-> 0, scanned |-> <<>>, pos |-> -1]

Raise(exc) == [outcome |-> "raise", value |-> exc, locals |-> NoLocals]
Return(v, l) == [outcome |-> "return", value |-> v, locals |-> l]

\* (mutant) only a soft clip that is the very last operation is seen
tail_clipped_size_last_only(cigar_tuples) ==
    LET n == Len(cigar_tuples)
    IN  IF cigar_tuples[n][1] = BAM_CSOFT_CLIP THEN cigar_tuples[n][2] ELSE 0

\* clipped_size of find_polya_tail; cigar_tuples is not empty
tail_clipped_size(cigar_tuples) ==
    LET n == Len(cigar_tuples)
    IN  IF n > 1 /\ cigar_tuples[n][1] = BAM_CHARD_CLIP
                 /\ cigar_tuples[n - 1][1] = BAM_CSOFT_CLIP
        THEN cigar_tuples[n - 1][2]
        ELSE IF cigar_tuples[n][1] = BAM_CSOFT_CLIP
             THEN cigar_tuples[n][2]
             ELSE 0

\* (mutant) the clipped tail is placed before reference_end, not after it
tail_coordinate_inside_alignment(alignment, clipped_size, whole_tail_len, pos) ==
    LET ref_tail_start == alignment.reference_end - whole_tail_len
        ref_polya_start == ref_tail_start + pos + 1
    IN  Min(ref_polya_start, alignment.reference_end)

\* (mutant) the coordinate is not clamped to reference_end
tail_coordinate_unclamped(alignment, clipped_size, whole_tail_len, pos) ==
    alignment.reference_end + clipped_size - whole_tail_len + pos + 1

\* the coordinate find_polya_tail returns once the scan has found pos
tail_coordinate(alignment, clipped_size, whole_tail_len, pos) ==
    LET ref_tail_start == alignment.reference_end + clipped_size - whole_tail_len
        ref_polya_start == ref_tail_start + pos + 1
    IN  Min(ref_polya_start, alignment.reference_end)

find_polya_tail(self, alignment) ==
    IF Len(alignment.cigartuples) = 0
    THEN Raise("IndexError")   \* cigar_tuples[-1] of an empty list
    ELSE
    LET clipped_size == tail_clipped_size(alignment.cigartuples)
        seq == alignment.seq
    IN  IF Len(seq) = 0
        THEN Return(-1, [NoLocals EXCEPT !.clipped_size = clipped_size])
        ELSE
        LET whole_tail_len == Min(clipped_size, Len(seq))
            check_tail_start == Len(seq) - whole_tail_len
            check_tail_end == Min(check_tail_start + 2 * self.window_size, Len(seq))
            scanned == Upper(PySlice(seq, check_tail_start, check_tail_end))
            pos == find_polya(self, scanned)
            l == [clipped_size |-> clipped_size, whole_len |-> whole_tail_len,
                  check_start |-> check_tail_start, check_end |-> check_tail_end,
                  scanned |-> scanned, pos |-> pos]
        IN  IF pos = -1
            THEN Return(-1, l)
            ELSE Return(tail_coordinate(alignment, clipped_size, whole_tail_len, pos), l)

\* clipped_size of find_polyt_head; cigar_tuples is not empty
head_clipped_size(cigar_tuples) ==
    IF Len(cigar_tuples) > 1 /\ cigar_tuples[1][1] = BAM_CHARD_CLIP
                             /\ cigar_tuples[2][1] = BAM_CSOFT_CLIP
    THEN cigar_tuples[2][2]
    ELSE IF cigar_tuples[1][1] = BAM_CSOFT_CLIP
         THEN cigar_tuples[1][2]
         ELSE 0

\* the coordinate find_polyt_head returns once the scan has found pos
head_coordinate(alignment, clipped_size, whole_head_len, pos) ==
    LET ref_head_end == alignment.reference_start - clipped_size + whole_head_len
        ref_polyt_end == Max(alignment.reference_start, ref_head_end - pos)
    IN  Max(ref_polyt_end, alignment.reference_start)

find_polyt_head(self, alignment) ==
    IF Len(alignment.cigartuples) = 0
    THEN Raise("IndexError")   \* cigar_tuples[0] of an empty list
    ELSE
    LET clipped_size == head_clipped_size(alignment.cigartuples)
        seq == alignment.seq
    IN  IF Len(seq) = 0
        THEN Return(-1, [NoLocals EXCEPT !.clipped_size = clipped_size])
        ELSE
        LET whole_head_len == Min(clipped_size, Len(seq))
            check_head_end == 0 + whole_head_len
            check_head_start == Max(check_head_end - 2 * self.window_size, 0)
            rc_head == Upper(reverse_complement(PySlice(seq, check_head_start, check_head_end)))
            pos == find_polya(self, rc_head)
            l == [clipped_size |-> clipped_size, whole_len |-> whole_head_len,
                  check_start |-> check_head_start, check_end |-> check_head_end,
                  scanned |-> rc_head, pos |-> pos]
        IN  IF pos = -1
            THEN Return(-1, l)
            ELSE Return(head_coordinate(alignment, clipped_size, whole_head_len, pos), l)

\* ----------------------------------------------------- TailLocator inputs
Bases == {"A", "C", "G", "T"}
\* query characters: A, T (reads as A on the other strand) and a soft-masked a
QueryChars == {"A", "T", "a"}

\* min_polya_fraction values: 0.5, 0.875, 1.0 and the default 0.8
Fractions == {[num |-> 1, den |-> 2], [num |-> 7, den |-> 8], [num |-> 1, den |-> 1]}
DefaultFraction == [num |-> 8, den |-> 10]

Finders == {PolyAFinder(w, f) : w \in 1..MaxWindow, f \in Fractions}

\* CIGAR operations: a match, a hard clip, soft clips of every length
CigarOps == {<<0, 1>>, <<BAM_CHARD_CLIP, 1>>}
            \cup {<<BAM_CSOFT_CLIP, n>> : n \in 1..MaxClip}
\* operation lists; the finder inspects at most OpsInspected operations of one end
CigarLists == UNION {[1..k -> CigarOps] : k \in 0..OpsInspected}

RefSpans == {<<3, 7>>, <<10, 11>>}

Alignments ==
    {[cigartuples |-> c, seq |-> s, reference_start |-> r[1], reference_end |-> r[2]] :
        c \in CigarLists, s \in StringsUpTo(QueryChars, MaxSeqLen), r \in RefSpans}

\* the end-to-end scenario: an operation list ending in a 10-base soft clip
\* whose last 8 query bases are A and whose other 2 are not
ScenarioSeqs ==
    {p \o x \o [i \in 1..8 |-> "A"] :
        p \in StringsUpTo(Bases, 1), x \in [1..2 -> Bases \ {"A"}]}
ScenarioAlignments ==
    {[cigartuples |-> (IF Len(s) > 10 THEN <<(<<0, Len(s) - 10>>)>> ELSE <<>>)
                        \o <<(<<BAM_CSOFT_CLIP, 10>>)>>,
      seq |-> s, reference_start |-> r[1], reference_end |-> r[2]] :
        s \in ScenarioSeqs, r \in RefSpans}
ScenarioFinders ==
    {PolyAFinder(DefaultWindowSize, DefaultFraction), PolyAFinder(8, [num |-> 7, den |-> 8])}

NoGene == [reference_region |-> <<>>, all_read_region_start |-> 0, canonical_sites |-> <<>>]
NoFinder == PolyAFinder(DefaultWindowSize, DefaultFraction)
NoRet == [outcome |-> "none", value |-> 0]

\* ------------------------------------------------------ TailLocator spec
InitTail ==
    /\ pc = "start" /\ op = "none" /\ ret = NoRet /\ locals = NoLocals
    /\ gene_info = NoGene
    /\ \/ finder \in Finders /\ arg \in {[seq |-> s] : s \in StringsUpTo(Bases, MaxSeqLen)}
       \/ finder \in Finders /\ arg \in Alignments
       \/ finder \in ScenarioFinders /\ arg \in ScenarioAlignments

IsAlignment(a) == "cigartuples" \in DOMAIN a

Finish(name, r) ==
    /\ pc' = "done" /\ op' = name
    /\ ret' = [outcome |-> r.outcome, value |-> r.value]
    /\ locals' = r.locals
    /\ UNCHANGED <<finder, arg, gene_info>>

FindPolya ==
    /\ pc = "start" /\ ~IsAlignment(arg)
    /\ Finish("find_polya", Return(find_polya(finder, arg.seq), NoLocals))

FindPolyaTail ==
    /\ pc = "start" /\ IsAlignment(arg)
    /\ Finish("find_polya_tail", find_polya_tail(finder, arg))

FindPolytHead ==
    /\ pc = "start" /\ IsAlignment(arg)
    /\ Finish("find_polyt_head", find_polyt_head(finder, arg))

NextTail == FindPolya \/ FindPolyaTail \/ FindPolytHead

Spec == InitTail /\ [][NextTail]_vars

\* ---------------------------------------------------------------- IOSupport
canonical_donor_sites == {<<"G", "T">>, <<"G", "C">>, <<"A", "T">>}
canonical_acceptor_sites == {<<"A", "G">>, <<"A", "C">>}
canonical_donor_sites_rc == {<<"A", "C">>, <<"G", "C">>, <<"A", "T">>}
canonical_acceptor_sites_rc == {<<"C", "T">>, <<"G", "T">>}

\* (mutant) the right site is read one base too far to the right
computed_site_value_shifted(gene, intron, strand) ==
    LET intron_left_pos == intron[1] - gene.all_read_region_start
        intron_right_pos == intron[2] - gene.all_read_region_start
        left_site == PySlice(gene.reference_region, intron_left_pos, intron_left_pos + 2)
        right_site == PySlice(gene.reference_region, intron_right_pos, intron_right_pos + 2)
    IN  IF strand = "+"
        THEN left_site \in canonical_donor_sites /\ right_site \in canonical_acceptor_sites
        ELSE left_site \in canonical_acceptor_sites_rc /\ right_site \in canonical_donor_sites_rc

\* the boolean check_sites_are_canonical computes for an intron not yet cached
computed_site_value(gene, intron, strand) ==
    LET intron_left_pos == intron[1] - gene.all_read_region_start
        intron_right_pos == intron[2] - gene.all_read_region_start
        left_site == PySlice(gene.reference_region, intron_left_pos, intron_left_pos + 2)
        right_site == PySlice(gene.reference_region, intron_right_pos - 1, intron_right_pos + 1)
    IN  IF strand = "+"
        THEN left_site \in canonical_donor_sites /\ right_site \in canonical_acceptor_sites
        ELSE left_site \in canonical_acceptor_sites_rc /\ right_site \in canonical_donor_sites_rc

\* (mutant) the site is recomputed and stored on every call
canonical_sites_recomputed(gene, intron, strand) ==
    [i \in DOMAIN gene.canonical_sites \cup {intron} |->
        IF i = intron THEN computed_site_value(gene, intron, strand)
        ELSE gene.canonical_sites[i]]

\* gene_info.canonical_sites after the body of "if intron not in
\* gene_info.canonical_sites" has run for intron
canonical_sites_with(gene, intron, strand) ==
    IF intron \in DOMAIN gene.canonical_sites
    THEN gene.canonical_sites
    ELSE [i \in DOMAIN gene.canonical_sites \cup {intron} |->
            IF i = intron THEN computed_site_value(gene, intron, strand)
            ELSE gene.canonical_sites[i]]

\* the for loop of check_sites_are_canonical from the k-th intron on: the
\* gene-region object it leaves and the value it returns
RECURSIVE check_sites_from(_, _, _, _)
check_sites_from(gene, read_introns, strand, k) ==
    IF k > Len(read_introns)
    THEN [gene_info |-> gene, value |-> TRUE]
    ELSE LET intron == read_introns[k]
             g == [gene EXCEPT !.canonical_sites = canonical_sites_with(gene, intron, strand)]
         IN  IF ~g.canonical_sites[intron]
             THEN [gene_info |-> g, value |-> FALSE]
             ELSE check_sites_from(g, read_introns, strand, k + 1)

check_sites_are_canonical(read_introns, gene, strand) ==
    check_sites_from(gene, read_introns, strand, 1)

\* -------------------------------------------------------- gene-region inputs
Strands == {"+", "-"}
EmptySites == [i \in {} |-> TRUE]

\* introns <<l, r>> (genomic, inclusive) inside a region of `len` bases that
\* starts at `start`, long enough to hold a donor and an acceptor site
IntronsIn(start, len) ==
    {<<start + l, start + r>> : l \in 0..(len - 1), r \in 0..(len - 1)}
        \cap {i \in Int \X Int : i[2] - i[1] + 1 >= 2 * SiteLen}

IntronLess(a, b) == a[1] < b[1] \/ (a[1] = b[1] /\ a[2] < b[2])

\* read intron lists: at most n introns, sorted by position
IntronLists(introns, n) ==
    {s \in UNION {[1..k -> introns] : k \in 0..n} :
        \A k \in 1..(Len(s) - 1) : IntronLess(s[k], s[k + 1])}

GeneRegions ==
    {[reference_region |-> r, all_read_region_start |-> RegionStart,
      canonical_sites |-> EmptySites] : r \in [1..RegionLen -> Bases]}

\* ------------------------------------------ canonical splice sites, one call
InitCanonical ==
    /\ pc = "start" /\ op = "none" /\ ret = NoRet /\ locals = NoLocals
    /\ finder = NoFinder
    /\ gene_info \in GeneRegions
    /\ arg \in {[read_introns |-> i, strand |-> s] :
                  i \in IntronLists(IntronsIn(RegionStart, RegionLen), MaxIntrons),
                  s \in Strands}

CheckSitesAreCanonical ==
    /\ pc = "start" /\ "read_introns" \in DOMAIN arg
    /\ LET r == check_sites_are_canonical(arg.read_introns, gene_info, arg.strand)
       IN  /\ gene_info' = r.gene_info
           /\ ret' = [outcome |-> "return", value |-> r.value]
    /\ pc' = "done" /\ op' = "check_sites_are_canonical"
    /\ UNCHANGED <<finder, arg, locals>>

NextCanonical == CheckSitesAreCanonical

SpecCanonical == InitCanonical /\ [][NextCanonical]_vars

\* ------------------------- canonical-site cache over the life of one object
\* reference windows: a 2-base left site, filler, a 2-base right site
SampleSites == {<<"G", "T">>, <<"C", "T">>, <<"A", "C">>, <<"A", "G">>, <<"T", "T">>}
SampleRegions ==
    {l \o [k \in 1..(RegionLen - 2 * SiteLen) |-> "T"] \o r : l \in SampleSites, r \in SampleSites}

\* the introns the reads of this gene share: they end at the region's end
SharedIntrons ==
    IntronsIn(RegionStart, RegionLen)
        \cap {<<RegionStart + j, RegionStart + RegionLen - 1>> : j \in 0..(MaxSharedIntrons - 1)}

InitCache ==
    /\ pc = "idle" /\ op = "none" /\ ret = NoRet /\ locals = NoLocals
    /\ finder = NoFinder
    /\ arg = [read_introns |-> <<>>, strand |-> "+"]
    /\ gene_info \in {[reference_region |-> r, all_read_region_start |-> RegionStart,
                       canonical_sites |-> EmptySites] : r \in SampleRegions}

\* one call of check_sites_are_canonical on the gene-region object
CallCheckSitesAreCanonical ==
    \E i \in IntronLists(SharedIntrons, MaxIntrons), s \in Strands :
        LET r == check_sites_are_canonical(i, gene_info, s)
        IN  /\ gene_info' = r.gene_info
            /\ ret' = [outcome |-> "return", value |-> r.value]
            /\ arg' = [read_introns |-> i, strand |-> s]
            /\ op' = "check_sites_are_canonical"
            /\ UNCHANGED <<pc, finder, locals>>

\* the caller replaces the reference region sequence between two calls
MutateReference ==
    \E r \in SampleRegions \ {gene_info.reference_region} :
        /\ gene_info' = [gene_info EXCEPT !.reference_region = r]
        /\ op' = "mutate_reference"
        /\ UNCHANGED <<pc, finder, locals, arg, ret>>

NextCache == CallCheckSitesAreCanonical \/ MutateReference

SpecCache == InitCache /\ [][NextCache]_vars

\* ------------------------------------------------- distances to TSS and TTS
\* src.common / gene_info / read_assignment helpers the distances call
RECURSIVE sum_intervals_to_point(_, _)
sum_intervals_to_point(intervals, point) ==
    IF intervals = <<>> THEN 0
    ELSE LET i == Head(intervals)
         IN  Max(0, Min(i[2], point - 1) - i[1] + 1)
                + sum_intervals_to_point(Tail(intervals), point)

RECURSIVE sum_intervals_from_point(_, _)
sum_intervals_from_point(intervals, point) ==
    IF intervals = <<>> THEN 0
    ELSE LET i == Head(intervals)
         IN  Max(0, i[2] - Max(i[1], point + 1) + 1)
                + sum_intervals_from_point(Tail(intervals), point)

Abs(x) == IF x < 0 THEN -x ELSE x

\* index (from 1) of the first smallest element
argmin(array) ==
    CHOOSE k \in DOMAIN array :
        /\ \A j \in DOMAIN array : array[k] <= array[j]
        /\ \A j \in 1..(k - 1) : array[j] > array[k]

read_start(read_assignment) == read_assignment.read_exons[1][1]
read_end(read_assignment) == read_assignment.read_exons[Len(read_assignment.read_exons)][2]
transcript_start(read_assignment, t) == read_assignment.all_isoforms_exons[t][1][1]
transcript_end(read_assignment, t) ==
    read_assignment.all_isoforms_exons[t][Len(read_assignment.all_isoforms_exons[t])][2]

\* (mutant) an overshoot is measured along the transcript's exons
count_tss_dist_along_transcript(read_assignment, transcript_id) ==
    IF read_start(read_assignment) < transcript_start(read_assignment, transcript_id)
    THEN -sum_intervals_to_point(read_assignment.all_isoforms_exons[transcript_id],
                                 transcript_start(read_assignment, transcript_id))
    ELSE sum_intervals_to_point(read_assignment.all_isoforms_exons[transcript_id],
                                read_start(read_assignment))

count_tss_dist(read_assignment, transcript_id) ==
    IF read_start(read_assignment) < transcript_start(read_assignment, transcript_id)
    THEN -sum_intervals_to_point(read_assignment.read_exons,
                                 transcript_start(read_assignment, transcript_id))
    ELSE sum_intervals_to_point(read_assignment.all_isoforms_exons[transcript_id],
                                read_start(read_assignment))

count_tts_dist(read_assignment, transcript_id) ==
    IF read_end(read_assignment) > transcript_end(read_assignment, transcript_id)
    THEN -sum_intervals_from_point(read_assignment.read_exons,
                                   transcript_end(read_assignment, transcript_id))
    ELSE sum_intervals_from_point(read_assignment.all_isoforms_exons[transcript_id],
                                  read_end(read_assignment))

\* (mutant) both distances are taken from the transcript closest at the TSS
find_closests_tsts_one_transcript(read_assignment) ==
    LET ts == DOMAIN read_assignment.all_isoforms_exons
        dists_to_gene_tss == [t \in ts |-> count_tss_dist(read_assignment, t)]
        dists_to_gene_tts == [t \in ts |-> count_tts_dist(read_assignment, t)]
        k == argmin([t \in ts |-> Abs(dists_to_gene_tss[t])])
    IN  <<dists_to_gene_tss[k], dists_to_gene_tts[k]>>

\* the transcripts of the gene are all_isoforms_exons in db order (by start)
find_closests_tsts(read_assignment) ==
    LET ts == DOMAIN read_assignment.all_isoforms_exons
        dists_to_gene_tss == [t \in ts |-> count_tss_dist(read_assignment, t)]
        dists_to_gene_tts == [t \in ts |-> count_tts_dist(read_assignment, t)]
    IN  <<dists_to_gene_tss[argmin([t \in ts |-> Abs(dists_to_gene_tss[t])])],
          dists_to_gene_tts[argmin([t \in ts |-> Abs(dists_to_gene_tts[t])])]>>

\* ------------------------------------------------------- distance inputs
\* exon lists: at most MaxExons inclusive intervals in 0..MaxCoord, in
\* order, with at least one intron base between two exons
ExonLists ==
    {x \in UNION {[1..k -> {i \in (0..MaxCoord) \X (0..MaxCoord) : i[1] <= i[2]}] :
                    k \in 1..MaxExons} :
        \A k \in 1..(Len(x) - 1) : x[k][2] + 1 < x[k + 1][1]}

\* the transcripts of a gene, as the feature db lists them: ordered by start
TranscriptLists ==
    {g \in UNION {[1..k -> ExonLists] : k \in 1..MaxTranscripts} :
        \A k \in 1..(Len(g) - 1) : g[k][1][1] <= g[k + 1][1][1]}

\* a call in flight: the distances to one transcript, or the closest
\* distances over all transcripts of the read's gene
InitDist ==
    /\ pc = "start" /\ ret = NoRet /\ locals = NoLocals
    /\ finder = NoFinder /\ gene_info = NoGene
    /\ \/ /\ op \in {"count_tss_dist", "count_tts_dist"}
          /\ \E r \in ExonLists, t \in ExonLists :
                arg = [read_exons |-> r, all_isoforms_exons |-> <<t>>, transcript_id |-> 1]
       \/ /\ op = "find_closests_tsts"
          /\ \E r \in ExonLists, g \in TranscriptLists :
                arg = [read_exons |-> r, all_isoforms_exons |-> g, transcript_id |-> 1]

FinishDist(v) ==
    /\ pc' = "done"
    /\ ret' = [outcome |-> "return", value |-> v]
    /\ UNCHANGED <<op, finder, arg, locals, gene_info>>

CountTssDist ==
    /\ pc = "start" /\ op = "count_tss_dist"
    /\ FinishDist(count_tss_dist(arg, arg.transcript_id))

CountTtsDist ==
    /\ pc = "start" /\ op = "count_tts_dist"
    /\ FinishDist(count_tts_dist(arg, arg.transcript_id))

FindClosestsTsts ==
    /\ pc = "start" /\ op = "find_closests_tsts"
    /\ FinishDist(find_closests_tsts(arg))

NextDist == CountTssDist \/ CountTtsDist \/ FindClosestsTsts

SpecDist == InitDist /\ [][NextDist]_vars

\* ------------------------------------------------- SqantiTSVPrinter rows
\* Bound on the transcripts of the gene region a row is written for.
MaxRowTranscripts == 2

AssignmentTypes == {"unique", "ambiguous", "empty"}
NoTranscript == 0
NoRow == [written |-> FALSE]

\* The four distance columns with the transcript-level pair swapped only.
sqanti_distances_gene_unswapped(read_assignment, transcript_id, strand) ==
    LET dist_to_tss == count_tss_dist(read_assignment, transcript_id)
        dist_to_tts == count_tts_dist(read_assignment, transcript_id)
        closest == find_closests_tsts(read_assignment)
    IN  IF strand = "-"
        THEN [diff_to_TSS |-> dist_to_tts, diff_to_TTS |-> dist_to_tss,
              diff_to_gene_TSS |-> closest[1], diff_to_gene_TTS |-> closest[2]]
        ELSE [diff_to_TSS |-> dist_to_tss, diff_to_TTS |-> dist_to_tts,
              diff_to_gene_TSS |-> closest[1], diff_to_gene_TTS |-> closest[2]]

\* The four distance columns of the row: both pairs are computed, then both
\* are swapped when the matched transcript is on the minus strand.
sqanti_distances(read_assignment, transcript_id, strand) ==
    LET dist_to_tss == count_tss_dist(read_assignment, transcript_id)
        dist_to_tts == count_tts_dist(read_assignment, transcript_id)
        closest == find_closests_tsts(read_assignment)
    IN  IF strand = "-"
        THEN [diff_to_TSS |-> dist_to_tts, diff_to_TTS |-> dist_to_tss,
              diff_to_gene_TSS |-> closest[2], diff_to_gene_TTS |-> closest[1]]
        ELSE [diff_to_TSS |-> dist_to_tss, diff_to_TTS |-> dist_to_tts,
              diff_to_gene_TSS |-> closest[1], diff_to_gene_TTS |-> closest[2]]

\* add_read_info up to the distance columns of the row it writes: no row
\* for an empty or ambiguous assignment or a match without a transcript.
add_read_info(read_assignment) ==
    IF read_assignment.assignment_type \in {"empty", "ambiguous"}
    THEN NoRow
    ELSE IF read_assignment.transcript_id = NoTranscript
    THEN NoRow
    ELSE LET transcript_id == read_assignment.transcript_id
             strand == read_assignment.isoform_strands[transcript_id]
             d == sqanti_distances(read_assignment, transcript_id, strand)
         IN  [written |-> TRUE, strand |-> strand,
              diff_to_TSS |-> d.diff_to_TSS, diff_to_TTS |-> d.diff_to_TTS,
              diff_to_gene_TSS |-> d.diff_to_gene_TSS,
              diff_to_gene_TTS |-> d.diff_to_gene_TTS]

RowGenes ==
    {g \in UNION {[1..n -> ExonLists] : n \in 1..MaxRowTranscripts} :
        \A i \in 1..(Len(g) - 1) : g[i][1][1] <= g[i + 1][1][1]}

\* Every transcript of the region carries the strand of its gene; the
\* inputs give all of them one strand, or alternate strands.
StrandMaps(n) ==
    {[i \in 1..n |-> s] : s \in Strands}
        \cup {[i \in 1..n |-> IF i % 2 = 1 THEN "+" ELSE "-"]}

InitRow ==
    /\ pc = "start" /\ op = "none" /\ ret = NoRet /\ locals = NoLocals
    /\ finder = NoFinder /\ gene_info = NoGene
    /\ \E r \in ExonLists, g \in RowGenes, a \in AssignmentTypes :
       \E t \in 0..Len(g), s \in StrandMaps(Len(g)) :
          /\ a # "unique" => Len(g) = 1 /\ t = 1
          /\ t = NoTranscript => Len(g) = 1
          /\ arg = [assignment_type |-> a, read_exons |-> r, all_isoforms_exons |-> g,
                    transcript_id |-> t, isoform_strands |-> s]

AddReadInfo ==
    /\ pc = "start"
    /\ pc' = "done" /\ op' = "add_read_info"
    /\ ret' = [outcome |-> "return", value |-> add_read_info(arg)]
    /\ UNCHANGED <<finder, arg, locals, gene_info>>

NextRow == AddReadInfo

SpecRow == InitRow /\ [][NextRow]_vars

\* --------------------------------------------- downstream base composition
\* Bound on upstream_region_len in the enumerated calls.
MaxUpstream == 2
\* The window length the SQANTI columns are documented for.
DefaultUpstreamRegionLen == 20

\* The A fraction is held as the ratio num/den of the float division.
\* (mutant) 'A' is counted on both strands.
check_downstream_polya_counts_A(params, read_coords, gene, strand) ==
    IF strand = "+"
    THEN LET read_end_pos == read_coords[2] - gene.all_read_region_start + 1
             seq == PySlice(gene.reference_region, read_end_pos,
                            read_end_pos + params.upstream_region_len)
         IN  [seq |-> seq,
              a_percentage |-> [num |-> Count(Upper(seq), "A"),
                                den |-> params.upstream_region_len]]
    ELSE LET read_start_pos == read_coords[1] - gene.all_read_region_start
             seq == PySlice(gene.reference_region,
                            read_start_pos - params.upstream_region_len, read_start_pos)
         IN  [seq |-> seq,
              a_percentage |-> [num |-> Count(Upper(seq), "A"),
                                den |-> params.upstream_region_len]]

check_downstream_polya(params, read_coords, gene, strand) ==
    IF strand = "+"
    THEN LET read_end_pos == read_coords[2] - gene.all_read_region_start + 1
             seq == PySlice(gene.reference_region, read_end_pos,
                            read_end_pos + params.upstream_region_len)
         IN  [seq |-> seq,
              a_percentage |-> [num |-> Count(Upper(seq), "A"),
                                den |-> params.upstream_region_len]]
    ELSE LET read_start_pos == read_coords[1] - gene.all_read_region_start
             seq == PySlice(gene.reference_region,
                            read_start_pos - params.upstream_region_len, read_start_pos)
         IN  [seq |-> seq,
              a_percentage |-> [num |-> Count(Upper(seq), "T"),
                                den |-> params.upstream_region_len]]

RegionBases == {"A", "T", "a", "t"}

\* read coordinates inside a region of the given length
ReadCoords(len) ==
    {c \in (RegionStart..(RegionStart + len - 1)) \X (RegionStart..(RegionStart + len - 1)) :
        c[1] <= c[2]}

\* A window of the documented length next to a one-base read: all one base,
\* or with a last base that is neither A nor T.
ScenarioWindows ==
    {[i \in 1..DefaultUpstreamRegionLen |-> IF i <= k THEN c ELSE "G"] :
        k \in {DefaultUpstreamRegionLen - 1, DefaultUpstreamRegionLen}, c \in {"A", "T"}}
ScenarioRegions ==
    {<<"C">> \o w : w \in ScenarioWindows} \cup {w \o <<"C">> : w \in ScenarioWindows}

InitDownstream ==
    /\ pc = "start" /\ op = "none" /\ ret = NoRet /\ locals = NoLocals
    /\ finder = NoFinder
    /\ \/ \E r \in [1..RegionLen -> RegionBases], c \in ReadCoords(RegionLen),
             l \in 1..MaxUpstream, s \in Strands :
             /\ gene_info = [reference_region |-> r, all_read_region_start |-> RegionStart,
                             canonical_sites |-> EmptySites]
             /\ arg = [read_coords |-> c, strand |-> s,
                       params |-> [upstream_region_len |-> l]]
       \/ \E r \in ScenarioRegions, p \in {RegionStart, RegionStart + DefaultUpstreamRegionLen},
             s \in Strands :
             /\ gene_info = [reference_region |-> r, all_read_region_start |-> RegionStart,
                             canonical_sites |-> EmptySites]
             /\ arg = [read_coords |-> <<p, p>>, strand |-> s,
                       params |-> [upstream_region_len |-> DefaultUpstreamRegionLen]]

CheckDownstreamPolya ==
    /\ pc = "start"
    /\ pc' = "done" /\ op' = "check_downstream_polya"
    /\ ret' = [outcome |-> "return",
               value |-> check_downstream_polya(arg.params, arg.read_coords,
                                                gene_info, arg.strand)]
    /\ UNCHANGED <<finder, arg, locals, gene_info>>

NextDownstream == CheckDownstreamPolya

SpecDownstream == InitDownstream /\ [][NextDownstream]_vars

\* ------------------------- calls in flight on different gene-region objects
\* Two gene-region objects, each with one check_sites_are_canonical call in
\* flight; pc, arg, locals, ret and gene_info are indexed by the object. The
\* call's argument record keeps the object as it was when the call began.
GeneIds == {"g1", "g2"}

IsolationRegions ==
    {l \o [k \in 1..(RegionLen - 2 * SiteLen) |-> "T"] \o r :
        l \in {<<"G", "T">>, <<"C", "T">>}, r \in {<<"A", "G">>, <<"A", "C">>}}

\* the object as an earlier call may have left it: untouched, or with the
\* region-long intron cached by a '+' call
IsolationObjects ==
    LET fresh == {[reference_region |-> r, all_read_region_start |-> RegionStart,
                   canonical_sites |-> EmptySites] : r \in IsolationRegions}
    IN  fresh \cup
        {check_sites_are_canonical(<<<<RegionStart, RegionStart + RegionLen - 1>>>>,
                                   g, "+").gene_info : g \in fresh}

\* (mutant) canonical_sites is one dictionary shared by every object
populate_site_shared(objects, g, intron, strand) ==
    [h \in DOMAIN objects |->
        [objects[h] EXCEPT !.canonical_sites = canonical_sites_with(objects[g], intron, strand)]]

\* the objects after "if intron not in gene_info.canonical_sites: ..." has
\* run in the call on object g
populate_site(objects, g, intron, strand) ==
    [objects EXCEPT ![g].canonical_sites = canonical_sites_with(objects[g], intron, strand)]

InitIsolation ==
    /\ op = "check_sites_are_canonical" /\ finder = NoFinder
    /\ gene_info \in [GeneIds -> IsolationObjects]
    /\ \E i \in [GeneIds -> IntronLists(SharedIntrons, MaxIntrons)], s \in [GeneIds -> Strands] :
          arg = [g \in GeneIds |->
                    [read_introns |-> i[g], gene_info |-> gene_info[g], strand |-> s[g]]]
    /\ pc = [g \in GeneIds |-> "populate"]
    /\ locals = [g \in GeneIds |-> 1]
    /\ ret = [g \in GeneIds |-> NoRet]

\* "for intron in read_introns: if intron not in gene_info.canonical_sites"
PopulateSite(g) ==
    /\ pc[g] = "populate" /\ locals[g] <= Len(arg[g].read_introns)
    /\ gene_info' = populate_site(gene_info, g, arg[g].read_introns[locals[g]], arg[g].strand)
    /\ pc' = [pc EXCEPT ![g] = "test"]
    /\ UNCHANGED <<op, finder, arg, locals, ret>>

\* "if not gene_info.canonical_sites[intron]: return False"
TestSite(g) ==
    /\ pc[g] = "test"
    /\ IF ~gene_info[g].canonical_sites[arg[g].read_introns[locals[g]]]
       THEN /\ ret' = [ret EXCEPT ![g] = [outcome |-> "return", value |-> FALSE]]
            /\ pc' = [pc EXCEPT ![g] = "done"]
            /\ UNCHANGED locals
       ELSE /\ locals' = [locals EXCEPT ![g] = locals[g] + 1]
            /\ pc' = [pc EXCEPT ![g] = "populate"]
            /\ UNCHANGED ret
    /\ UNCHANGED <<op, finder, arg, gene_info>>

\* the loop is exhausted: "return True"
ReturnTrue(g) ==
    /\ pc[g] = "populate" /\ locals[g] > Len(arg[g].read_introns)
    /\ ret' = [ret EXCEPT ![g] = [outcome |-> "return", value |-> TRUE]]
    /\ pc' = [pc EXCEPT ![g] = "done"]
    /\ UNCHANGED <<op, finder, arg, locals, gene_info>>

NextIsolation == \E g \in GeneIds : PopulateSite(g) \/ TestSite(g) \/ ReturnTrue(g)

SpecIsolation == InitIsolation /\ [][NextIsolation]_vars

\* ---------------- successive calls on one object, reference region unchanged
NextMemo == CallCheckSitesAreCanonical

SpecMemo == InitCache /\ [][NextMemo]_vars

\* ------------------------------------------------------------------ claims
Done(name) == pc = "done" /\ op = name

SetMin(S) == CHOOSE x \in S : \A y \in S : x <= y

\* offsets i, 0 <= i <= len(seq) - window_size, whose window holds enough A
QualifyingOffsets(seq, w, threshold) ==
    {i \in 0..(Len(seq) - w) :
        Cardinality({k \in (i + 1)..(i + w) : seq[k] = "A"}) >= threshold}

\* C1: find_polya returns the smallest offset of a window of window_size
\* characters with at least threshold A, every window up to the one ending
\* at the end of the string included, and -1 exactly when there is none.
C1_SmallestQualifyingOffset ==
    Done("find_polya") =>
        LET q == QualifyingOffsets(arg.seq, finder.window_size, finder.polyA_count)
        IN  ret.value = IF q = {} THEN -1 ELSE SetMin(q)

\* C2: find_polya on exactly window_size characters, all A, returns 0.
C2_AllAWindowFoundAtZero ==
    (/\ Done("find_polya")
     /\ Len(arg.seq) = finder.window_size
     /\ \A k \in DOMAIN arg.seq : arg.seq[k] = "A")
        => ret.value = 0

\* the clipped length as the claim words it
ClaimedTailClip(c) ==
    IF Len(c) >= 2 /\ c[Len(c) - 1][1] = BAM_CSOFT_CLIP /\ c[Len(c)][1] = BAM_CHARD_CLIP
    THEN c[Len(c) - 1][2]
    ELSE IF Len(c) >= 1 /\ c[Len(c)][1] = BAM_CSOFT_CLIP THEN c[Len(c)][2] ELSE 0

\* C3: find_polya_tail on a non-empty query (and a non-empty operation
\* list): the clipped length, whole_tail_len, the scanned window and the
\* returned coordinate min(reference_end + clipped_length - whole_tail_len
\* + offset + 1, reference_end) are as stated; the result never exceeds
\* reference_end.
C3_TailWindowAndCoordinate ==
    (Done("find_polya_tail") /\ Len(arg.seq) > 0 /\ ret.outcome = "return") =>
        LET clipped == ClaimedTailClip(arg.cigartuples)
            n == Len(arg.seq)
            whole == IF clipped < n THEN clipped ELSE n
            from == n - whole
            to == IF from + 2 * finder.window_size < n
                  THEN from + 2 * finder.window_size ELSE n
        IN  /\ locals.clipped_size = clipped
            /\ locals.whole_len = whole
            /\ locals.scanned = [k \in 1..(to - from) |-> UpperChar(arg.seq[from + k])]
            /\ locals.pos = -1 => ret.value = -1
            /\ locals.pos >= 0 =>
                  LET c == arg.reference_end + clipped - whole + locals.pos + 1
                  IN  ret.value = IF c < arg.reference_end THEN c ELSE arg.reference_end
            /\ ret.value <= arg.reference_end

\* C3 witness: a soft clip before a trailing hard clip, longer than the
\* scan reach, in which the scan found a window
C3_Witness ==
    /\ Done("find_polya_tail") /\ ret.outcome = "return"
    /\ Len(arg.cigartuples) = 2
    /\ arg.cigartuples[1][1] = BAM_CSOFT_CLIP /\ arg.cigartuples[2][1] = BAM_CHARD_CLIP
    /\ locals.clipped_size > 2 * finder.window_size
    /\ Len(arg.seq) > locals.clipped_size
    /\ locals.pos >= 0

AllChars(s, c) == \A k \in DOMAIN s : s[k] = c

\* C4: a leading soft clip of exactly window_size T is reverse-complemented
\* into window_size A and detected by find_polyt_head (no -1); the mirrored
\* trailing soft clip of window_size A is detected by find_polya_tail.
C4_PolyTRoundTrip ==
    /\ (/\ Done("find_polyt_head")
        /\ Len(arg.cigartuples) > 0
        /\ arg.cigartuples[1] = <<BAM_CSOFT_CLIP, finder.window_size>>
        /\ Len(arg.seq) >= finder.window_size
        /\ AllChars(SubSeq(arg.seq, 1, finder.window_size), "T"))
          => /\ AllChars(locals.scanned, "A")
             /\ Len(locals.scanned) = finder.window_size
             /\ ret.outcome = "return" /\ ret.value # -1
    /\ (/\ Done("find_polya_tail")
        /\ Len(arg.cigartuples) > 0
        /\ arg.cigartuples[Len(arg.cigartuples)] = <<BAM_CSOFT_CLIP, finder.window_size>>
        /\ Len(arg.seq) >= finder.window_size
        /\ AllChars(SubSeq(arg.seq, Len(arg.seq) - finder.window_size + 1, Len(arg.seq)), "A"))
          => ret.outcome = "return" /\ ret.value # -1

\* the scenario's alignment: the operation list ends in a 10-base soft clip
\* whose last 8 query bases are A and whose first 2 are not
IsScenario(a) ==
    /\ Len(a.cigartuples) > 0
    /\ a.cigartuples[Len(a.cigartuples)] = <<BAM_CSOFT_CLIP, 10>>
    /\ Len(a.seq) >= 10
    /\ \A k \in 1..10 : (a.seq[Len(a.seq) - 10 + k] = "A") <=> (k > 2)

\* C5: on the scenario's alignment find_polya_tail returns -1 with
\* window_size 20 and threshold 16, and reference_end with window_size 8
\* and threshold 7.
C5_EndToEndScenario ==
    (Done("find_polya_tail") /\ IsScenario(arg)) =>
        /\ (finder.window_size = 20 /\ finder.polyA_count = 16)
              => ret.outcome = "return" /\ ret.value = -1
        /\ (finder.window_size = 8 /\ finder.polyA_count = 7)
              => ret.outcome = "return" /\ ret.value = arg.reference_end

\* C5 witness: the scenario run with window_size 8 and threshold 7
C5_Witness ==
    /\ Done("find_polya_tail") /\ IsScenario(arg)
    /\ finder.window_size = 8 /\ finder.polyA_count = 7
    /\ locals.pos >= 0

\* C5 witness of the other half is reached too
C5_WitnessDefault ==
    /\ Done("find_polya_tail") /\ IsScenario(arg)
    /\ finder.window_size = 20 /\ finder.polyA_count = 16

\* no clip at the end the operation looks at
NoEndClip(name, c) ==
    \/ Len(c) = 0
    \/ /\ name = "find_polya_tail"
       /\ c[Len(c)][1] \notin {BAM_CSOFT_CLIP, BAM_CHARD_CLIP}
    \/ /\ name = "find_polyt_head"
       /\ c[1][1] \notin {BAM_CSOFT_CLIP, BAM_CHARD_CLIP}

\* C6: the not-found conditions give -1 and never an exception: an empty
\* query, no clip at the relevant end (or no operation at all), a scan
\* window shorter than window_size; find_polya on a string shorter than
\* window_size.
C6_NotFoundIsAValue ==
    /\ (pc = "done" /\ op \in {"find_polya_tail", "find_polyt_head"}) =>
          /\ ret.outcome = "return"
          /\ (\/ Len(arg.seq) = 0
              \/ NoEndClip(op, arg.cigartuples)
              \/ Len(locals.scanned) < finder.window_size) => ret.value = -1
    /\ (Done("find_polya") /\ Len(arg.seq) < finder.window_size) => ret.value = -1

\* the read introns of the call, as a set of indices / introns
IntronAt(k) == arg.read_introns[k]
RegionBase(p) == gene_info.reference_region[p - gene_info.all_read_region_start + 1]
LeftSite(i) == <<RegionBase(i[1]), RegionBase(i[1] + 1)>>
RightSite(i) == <<RegionBase(i[2] - 1), RegionBase(i[2])>>

\* canonical as the claim states it
ClaimedCanonical(i, strand) ==
    IF strand = "+"
    THEN /\ LeftSite(i) \in {<<"G", "T">>, <<"G", "C">>, <<"A", "T">>}
         /\ RightSite(i) \in {<<"A", "G">>, <<"A", "C">>}
    ELSE /\ LeftSite(i) \in {<<"A", "C">>, <<"G", "C">>, <<"A", "T">>}
         /\ RightSite(i) \in {<<"C", "T">>, <<"G", "T">>}

\* canonical with the '-' sets at the ends the code looks for them
AmendedCanonical(i, strand) ==
    IF strand = "+"
    THEN /\ LeftSite(i) \in {<<"G", "T">>, <<"G", "C">>, <<"A", "T">>}
         /\ RightSite(i) \in {<<"A", "G">>, <<"A", "C">>}
    ELSE /\ LeftSite(i) \in {<<"C", "T">>, <<"G", "T">>}
         /\ RightSite(i) \in {<<"A", "C">>, <<"G", "C">>, <<"A", "T">>}

\* the introns the loop reaches: all up to and with the first one that fails
ReachedIntrons(Canon(_, _)) ==
    {IntronAt(k) : k \in {k \in DOMAIN arg.read_introns :
                            \A j \in 1..(k - 1) : Canon(IntronAt(j), arg.strand)}}

\* C7 (as claimed): from an empty cache the call returns true iff every read
\* intron is canonical, '-' meaning left in {AC,GC,AT} and right in {CT,GT},
\* and stops at the first non-canonical intron.
C7_CanonicalAsClaimed ==
    Done("check_sites_are_canonical") =>
        /\ ret.value = \A k \in DOMAIN arg.read_introns : ClaimedCanonical(IntronAt(k), arg.strand)
        /\ DOMAIN gene_info.canonical_sites = ReachedIntrons(ClaimedCanonical)

\* C7 (amended): from an empty cache the call returns true iff every read
\* intron is canonical, where '+' means left in {GT,GC,AT} and right in
\* {AG,AC} and '-' means left in {CT,GT} and right in {AC,GC,AT}; it stops
\* at the first non-canonical intron (later introns are not cached).
C7_CanonicalAmended ==
    Done("check_sites_are_canonical") =>
        /\ ret.value = \A k \in DOMAIN arg.read_introns : AmendedCanonical(IntronAt(k), arg.strand)
        /\ DOMAIN gene_info.canonical_sites = ReachedIntrons(AmendedCanonical)
        /\ \A i \in DOMAIN gene_info.canonical_sites :
              gene_info.canonical_sites[i] = AmendedCanonical(i, arg.strand)

\* C7 witness: a '-' strand call on two introns, the first canonical with
\* CT at its left and AC at its right, the second not canonical
C7_Witness ==
    /\ Done("check_sites_are_canonical") /\ arg.strand = "-"
    /\ Len(arg.read_introns) = 2
    /\ LeftSite(IntronAt(1)) = <<"C", "T">> /\ RightSite(IntronAt(1)) = <<"A", "C">>
    /\ ~AmendedCanonical(IntronAt(2), "-")
    /\ ret.value = FALSE

\* C8: once canonical_sites[intron] has a value no later call changes or
\* removes it, whatever happens to the reference region in between, and a
\* call whose introns are all cached returns what the cache says.
C8_CacheIsAuthoritative ==
    [][/\ \A i \in DOMAIN gene_info.canonical_sites :
            /\ i \in DOMAIN gene_info'.canonical_sites
            /\ gene_info'.canonical_sites[i] = gene_info.canonical_sites[i]
       /\ (/\ op' = "check_sites_are_canonical"
           /\ \A k \in DOMAIN arg'.read_introns :
                 arg'.read_introns[k] \in DOMAIN gene_info.canonical_sites)
          => ret'.value = \A k \in DOMAIN arg'.read_introns :
                              gene_info.canonical_sites[arg'.read_introns[k]]]_vars

\* C8 witness: a call on a cached intron has returned, and the cached value
\* is not what the present reference region gives on either strand
C8_Witness ==
    /\ op = "check_sites_are_canonical"
    /\ Len(arg.read_introns) > 0
    /\ \A k \in DOMAIN arg.read_introns :
          /\ IntronAt(k) \in DOMAIN gene_info.canonical_sites
          /\ gene_info.canonical_sites[IntronAt(k)]
          /\ \A s \in Strands : ~computed_site_value(gene_info, IntronAt(k), s)
    /\ ret.value = TRUE

\* bases of the exon list inside lo..hi
ExonicSpan(exons, lo, hi) ==
    Cardinality({p \in lo..hi : \E k \in DOMAIN exons : exons[k][1] <= p /\ p <= exons[k][2]})

ReadExons == arg.read_exons
TranscriptExons == arg.all_isoforms_exons[arg.transcript_id]
ReadFirst == ReadExons[1][1]
ReadLast == ReadExons[Len(ReadExons)][2]
TranscriptFirst == TranscriptExons[1][1]
TranscriptLast == TranscriptExons[Len(TranscriptExons)][2]

C9_WitnessContained ==
    /\ Done("count_tts_dist")
    /\ ReadFirst >= TranscriptFirst /\ ReadLast <= TranscriptLast
    /\ ret.value > 0 /\ ret.value < TranscriptLast - ReadLast

TssOf(t) == count_tss_dist(arg, t)
TtsOf(t) == count_tts_dist(arg, t)

\* d is the value of smallest magnitude, the first in order among equals
FirstClosest(d, Dist(_)) ==
    \E k \in DOMAIN arg.all_isoforms_exons :
        /\ d = Dist(k)
        /\ \A j \in DOMAIN arg.all_isoforms_exons : Abs(Dist(k)) <= Abs(Dist(j))
        /\ \A j \in 1..(k - 1) : Abs(Dist(j)) > Abs(Dist(k))

\* C10: find_closests_tsts returns the per-transcript count_tss_dist of
\* smallest magnitude and the per-transcript count_tts_dist of smallest
\* magnitude, each chosen on its own, the first transcript winning a tie.
C10_ClosestPerEnd ==
    Done("find_closests_tsts") =>
        /\ FirstClosest(ret.value[1], TssOf)
        /\ FirstClosest(ret.value[2], TtsOf)

\* C10 witness: two transcripts tie at the TSS with opposite signs, and the
\* TTS distance comes from the other transcript
C10_Witness ==
    /\ Done("find_closests_tsts")
    /\ Len(arg.all_isoforms_exons) >= 2
    /\ TssOf(1) = -TssOf(2) /\ TssOf(1) # 0
    /\ ret.value[1] = TssOf(1)
    /\ Abs(TtsOf(2)) < Abs(TtsOf(1))

\* C11: in the row written for a read matched to a minus-strand transcript,
\* diff_to_TSS is count_tts_dist and diff_to_TTS is count_tss_dist, and the
\* pair of find_closests_tsts is reported in swapped order as well; for a
\* plus-strand transcript both pairs are reported as computed.
C11_StrandNormalization ==
    (Done("add_read_info") /\ ret.value.written) =>
        LET t == arg.transcript_id
            tss == count_tss_dist(arg, t)
            tts == count_tts_dist(arg, t)
            closest == find_closests_tsts(arg)
            row == ret.value
        IN  /\ arg.isoform_strands[t] = "-" =>
                /\ row.diff_to_TSS = tts /\ row.diff_to_TTS = tss
                /\ row.diff_to_gene_TSS = closest[2]
                /\ row.diff_to_gene_TTS = closest[1]
            /\ arg.isoform_strands[t] = "+" =>
                /\ row.diff_to_TSS = tss /\ row.diff_to_TTS = tts
                /\ row.diff_to_gene_TSS = closest[1]
                /\ row.diff_to_gene_TTS = closest[2]

C11_Witness ==
    /\ Done("add_read_info") /\ ret.value.written
    /\ arg.isoform_strands[arg.transcript_id] = "-"
    /\ Len(arg.all_isoforms_exons) = 2
    /\ ret.value.diff_to_TSS # ret.value.diff_to_TTS
    /\ ret.value.diff_to_gene_TSS # ret.value.diff_to_gene_TTS
    /\ ret.value.diff_to_gene_TSS # ret.value.diff_to_TSS

\* The window of a check_downstream_polya call, as offsets into the
\* reference region: the bases after the read's end on '+', the bases
\* before the read's start on '-'.
WindowLen == arg.params.upstream_region_len
WindowFirst ==
    IF arg.strand = "+"
    THEN arg.read_coords[2] - gene_info.all_read_region_start + 1
    ELSE arg.read_coords[1] - gene_info.all_read_region_start - WindowLen
WindowInside == WindowFirst >= 0 /\ WindowFirst + WindowLen <= Len(gene_info.reference_region)
CountedBase == IF arg.strand = "+" THEN "A" ELSE "T"
ExactWindow ==
    /\ Len(ret.value.seq) = WindowLen
    /\ WindowInside
    /\ \A i \in 1..WindowLen :
          ret.value.seq[i] = gene_info.reference_region[WindowFirst + i]
FractionOfWindowLen ==
    /\ ret.value.a_percentage.den = WindowLen
    /\ ret.value.a_percentage.num =
          Cardinality({i \in DOMAIN ret.value.seq : UpperChar(ret.value.seq[i]) = CountedBase})

\* C12 (as stated): for every read position inside the reference region the
\* returned subsequence is exactly the upstream_region_len bases of the
\* window (after the read's end on '+', before its start on '-'), and the
\* fraction is the number of A (resp. T) in it over upstream_region_len, so
\* a window of that base alone gives fraction 1.
C12_DownstreamWindowAsClaimed ==
    Done("check_downstream_polya") =>
        /\ ExactWindow
        /\ FractionOfWindowLen
        /\ (\A i \in 1..WindowLen : i \in DOMAIN ret.value.seq
                                    /\ UpperChar(ret.value.seq[i]) = CountedBase)
             => ret.value.a_percentage.num = ret.value.a_percentage.den

\* C12 (amended): the subsequence is exactly the window when the window lies
\* wholly inside the reference region; a '+' window running past the region's
\* end is cut at the end; in every case the fraction is the number of A
\* (resp. T), in either letter case, in the returned subsequence over
\* upstream_region_len.
C12_DownstreamWindowAmended ==
    Done("check_downstream_polya") =>
        /\ WindowInside => ExactWindow
        /\ FractionOfWindowLen
        /\ (WindowInside /\ \A i \in 1..WindowLen :
                UpperChar(gene_info.reference_region[WindowFirst + i]) = CountedBase)
             => ret.value.a_percentage.num = ret.value.a_percentage.den
        /\ (~WindowInside /\ arg.strand = "+") =>
              ret.value.seq = SubSeq(gene_info.reference_region, WindowFirst + 1,
                                     Len(gene_info.reference_region))

C12_Witness ==
    /\ Done("check_downstream_polya")
    /\ WindowLen = DefaultUpstreamRegionLen /\ WindowInside
    /\ arg.strand = "-"
    /\ ret.value.a_percentage.num = DefaultUpstreamRegionLen
    /\ ret.value.a_percentage.den = DefaultUpstreamRegionLen

\* C13: with check_sites_are_canonical calls on different gene-region
\* objects interleaved in any order, a step of the call on one object leaves
\* every other object (its cache and its reference region) unchanged, and a
\* call that finishes has returned the value and left its object with the
\* cache that the same call would have produced running alone.
C13_GeneRegionIsolation ==
    [][\A g \in GeneIds :
          /\ (pc'[g] = pc[g] /\ locals'[g] = locals[g]) => gene_info'[g] = gene_info[g]
          /\ pc'[g] = "done" =>
                LET alone == check_sites_are_canonical(arg[g].read_introns,
                                                       arg[g].gene_info, arg[g].strand)
                IN  /\ ret'[g].value = alone.value
                    /\ gene_info'[g] = alone.gene_info]_vars

\* both calls are inside their loops at once, each has cached the same
\* intron in its own object, and the two cached values differ
C13_Witness ==
    /\ op = "check_sites_are_canonical" /\ DOMAIN pc = GeneIds
    /\ pc["g1"] = "test" /\ pc["g2"] = "test"
    /\ locals["g1"] = 2 /\ locals["g2"] = 1
    /\ \E i \in DOMAIN gene_info["g1"].canonical_sites \cap DOMAIN gene_info["g2"].canonical_sites :
          gene_info["g1"].canonical_sites[i] # gene_info["g2"].canonical_sites[i]

\* what check_sites_are_canonical computes for the list without a cache
UncachedResult(read_introns, gene, strand) ==
    \A k \in 1..Len(read_introns) : computed_site_value(gene, read_introns[k], strand)

\* C14: with the reference region unchanged, whatever calls were made before
\* on the same gene-region object, a call returns the boolean that the
\* uncached computation gives for its intron list and its strand.
C14_MemoizationTransparent ==
    op = "check_sites_are_canonical" =>
        ret.value = UncachedResult(arg.read_introns, gene_info, arg.strand)

\* the coordinates before the final clamp, from the locals of the call
UnclampedTail == arg.reference_end + locals.clipped_size - locals.whole_len + locals.pos + 1
UnclampedHead == arg.reference_start - locals.clipped_size + locals.whole_len - locals.pos

\* C15: whenever find_polya_tail returns it returns -1 or reference_end, and
\* whenever find_polyt_head returns it returns -1 or reference_start: once a
\* window is found the value before the clamp is at least reference_end + 1
\* (resp. at most reference_start), so the scan offset never shows in the
\* returned coordinate.
C15_TailCollapsesToBoundary ==
    /\ (Done("find_polya_tail") /\ ret.outcome = "return") =>
          \/ ret.value = -1 /\ locals.pos = -1
          \/ /\ locals.pos >= 0
             /\ UnclampedTail >= arg.reference_end + 1
             /\ ret.value = arg.reference_end
    /\ (Done("find_polyt_head") /\ ret.outcome = "return") =>
          \/ ret.value = -1 /\ locals.pos = -1
          \/ /\ locals.pos >= 0
             /\ UnclampedHead <= arg.reference_start
             /\ ret.value = arg.reference_start

\* a tail found at a non-zero scan offset in a clip longer than one base
C15_Witness ==
    /\ Done("find_polya_tail") /\ ret.outcome = "return"
    /\ locals.pos > 0 /\ locals.whole_len > 1
    /\ UnclampedTail > arg.reference_end + 1
    /\ ret.value = arg.reference_end

====
